---- MODULE Spec2Model ----
(***************************************************************************)
(* State-machine model of the LoRaWAN data collection backend:             *)
(*   backend/app.py    ingestion endpoint and tenant-scoped read endpoints *)
(*   backend/auth.py   bearer-token verification                           *)
(*   backend/tasks.py  Celery worker task save_sensor_data                 *)
(*   backend/routers/auth.py, backend/rate_limiter.py                      *)
(*                     login and password-reset request, rate limited      *)
(* Time is counted in whole hours.  The store is the set of committed      *)
(* rows.  The handlers of app.py are coroutines without an await, so one   *)
(* server process serialises them; those of routers/auth.py are plain      *)
(* functions run on worker threads, and register and confirm are also      *)
(* modelled in the steps in which two of them interleave.                  *)
(***************************************************************************)
EXTENDS Integers, Sequences, FiniteSets, TLC

\* ------------------------------------------------------------------ bounds
MaxTime == 1
MaxSubmissions == 2
MaxRows == 3
MaxProbes == 1
MaxRejected == 1
MaxOtps == 2
MaxLogins == 2

\* ------------------------------------------------------- program constants
ACCESS_TOKEN_EXPIRE_HOURS == 1
REFRESH_TOKEN_EXPIRE_HOURS == 168
max_retries == 3
MaxLimit == 1000
MINUTE == 60
HOUR == 3600
OTP_EXPIRE_SECONDS == 900
HOURS_PER_DAY == 24

\* ------------------------------------------------------------- null values
NoUser == 0
NoTime == -1
NoJob == 0
NoKeyRow == 0
NoKey == "None"
NoSub == "None"
NoStr == "None"
NoAddr == "None"

\* ------------------------------------------------------------------ tokens
\* A bearer token as jwt.encode builds it: the payload (sub, exp) and whether
\* the signature was made with SECRET_KEY.
create_access_token(sub, t) ==
    [sub |-> sub, exp |-> t + ACCESS_TOKEN_EXPIRE_HOURS, sig |-> "good"]

create_refresh_token(sub, t) ==
    [sub |-> sub, exp |-> t + REFRESH_TOKEN_EXPIRE_HOURS, sig |-> "good"]

NoToken == [sub |-> NoSub, exp |-> 0, sig |-> "absent"]

Emails == {"u1@x", "u2@x"}

\* The Authorization headers a client may send: none, tokens as login issues
\* them (at time 0, and one an hour earlier, which expires first), and tokens
\* that are forged, malformed, without a subject or for an address that has
\* no user.
Tokens ==
    {NoToken}
    \cup {create_access_token(e, 0) : e \in Emails}
    \cup {create_access_token("u1@x", -1), create_refresh_token("u1@x", 0)}
    \cup {[sub |-> "u1@x", exp |-> MaxTime + 1, sig |-> "bad"],
          [sub |-> NoSub, exp |-> 0, sig |-> "malformed"],
          [sub |-> NoSub, exp |-> MaxTime + 1, sig |-> "good"],
          [sub |-> "ghost@x", exp |-> MaxTime + 1, sig |-> "good"]}

\* ---------------------------------------------------------------- requests
KeyHeaders == {NoKey, "lora_a", "lora_b", "lora_c", "lora_x"}

\* Request bodies (SensorDataInput); timestamps are hours, as the clock is.
ProbePayload == [gateway_id |-> "GW-1", node_id |-> "N-1", timestamp |-> 0]

Payloads ==
    {ProbePayload,
     [gateway_id |-> "GW-1", node_id |-> "N-2", timestamp |-> -2],
     [gateway_id |-> "GW-2", node_id |-> "N-1", timestamp |-> 0]}

EnqueueOutcomes == {"ok", "fail"}
StoreOutcomes == {"ok", "commit_fails", "refresh_fails"}

VARIABLES now, users, api_keys, readings, jobs, nsub, rid, celery, resp,
          inflight, clock, limiter, recent, otps, registering, confirming

vars == <<now, users, api_keys, readings, jobs, nsub, rid, celery, resp,
          inflight, clock, limiter, recent, otps, registering, confirming>>

\* What the ingestion, worker and read handlers leave alone.
others == <<inflight, clock, limiter, recent, otps, registering, confirming>>

\* The body of GET /api/stats when there is none.
NoIsoTime == <<"null", 0>>

NoStats ==
    [total_readings |-> 0, total_gateways |-> 0, total_nodes |-> 0,
     latest_reading_time |-> NoIsoTime]

Idle ==
    [op |-> "idle", key |-> NoKey, token |-> NoToken, status |-> 0, detail |-> "",
     job_id |-> NoJob, sub |-> 0, enq |-> "n/a", db |-> "n/a", rows |-> <<>>,
     addr |-> NoAddr, email |-> NoStr, password |-> NoStr,
     access_token |-> NoToken, refresh_token |-> NoToken,
     values |-> <<>>, stats |-> NoStats, gateway_id |-> NoStr,
     node_id |-> NoStr, hours |-> 0, limit |-> 0, skip |-> 0,
     otp_code |-> NoStr, username |-> NoStr, days |-> 0, deleted_count |-> 0]

\* ------------------------------------------------------------------- store
\* db.query(User).filter(User.id == id).first()
UserByIdUnfiltered(id) == CHOOSE u \in DOMAIN users : \A v \in DOMAIN users : u <= v

UserById(id) == IF id \in DOMAIN users THEN id ELSE NoUser

\* A lookup that answers with the oldest user whatever the email.
UserByEmailFirstRow(email) ==
    CHOOSE u \in DOMAIN users : \A v \in DOMAIN users : u <= v

\* db.query(User).filter(User.email == email).first(); email is unique
UserByEmail(email) ==
    IF \E u \in DOMAIN users : users[u].email = email
    THEN CHOOSE u \in DOMAIN users : users[u].email = email
    ELSE NoUser

\* db.query(APIKey).filter(key_value == x_api_key, is_active == True).first();
\* key_value is unique.  The result is the key's row id, 0 for no row.
KeyLookupAnyState(x_api_key) ==
    IF \E k \in DOMAIN api_keys : api_keys[k].key_value = x_api_key
    THEN CHOOSE k \in DOMAIN api_keys : api_keys[k].key_value = x_api_key
    ELSE NoKeyRow

KeyLookup(x_api_key) ==
    IF \E k \in DOMAIN api_keys :
           api_keys[k].key_value = x_api_key /\ api_keys[k].is_active
    THEN CHOOSE k \in DOMAIN api_keys :
           api_keys[k].key_value = x_api_key /\ api_keys[k].is_active
    ELSE NoKeyRow

\* api_key.expires_at and api_key.expires_at < datetime.utcnow()
KeyExpiredNullToo(k) ==
    api_keys[k].expires_at < now

KeyExpired(k) ==
    api_keys[k].expires_at # NoTime /\ api_keys[k].expires_at < now

\* jwt.decode with a check of a token-kind claim, which the code does not make.
decode_token_access_only(token) ==
    /\ token.sig = "good"
    /\ token.exp >= now
    /\ token.exp <= now + ACCESS_TOKEN_EXPIRE_HOURS

\* -------------------------------------------------------- bearer tokens
\* jwt.decode(token, SECRET_KEY): the signature must verify and exp must not
\* lie before the current time.  TRUE when the payload is returned, FALSE
\* when JWTError is raised.
decode_token(token) == token.sig = "good" /\ ~(token.exp < now)

\* get_current_user: the user, or the HTTPException raised.  A request
\* without an Authorization header is refused by HTTPBearer() itself.
get_current_user_any_user(token) ==
    IF token = NoToken
    THEN [status |-> 403, detail |-> "Not authenticated", user |-> NoUser]
    ELSE IF ~decode_token(token) \/ token.sub = NoSub
    THEN [status |-> 401, detail |-> "Could not validate credentials", user |-> NoUser]
    ELSE IF UserByEmail(token.sub) = NoUser
    THEN [status |-> 401, detail |-> "User not found", user |-> NoUser]
    ELSE [status |-> 200, detail |-> "", user |-> UserByEmail(token.sub)]

get_current_user_silent(token) ==
    IF ~decode_token(token) \/ token.sub = NoSub
            \/ UserByEmail(token.sub) = NoUser
    THEN [status |-> 200, detail |-> "", user |-> NoUser]
    ELSE IF ~users[UserByEmail(token.sub)].is_active
    THEN [status |-> 403, detail |-> "Inactive user", user |-> NoUser]
    ELSE [status |-> 200, detail |-> "", user |-> UserByEmail(token.sub)]

get_current_user(token) ==
    IF token = NoToken
    THEN [status |-> 403, detail |-> "Not authenticated", user |-> NoUser]
    ELSE IF ~decode_token(token)
    THEN [status |-> 401, detail |-> "Could not validate credentials", user |-> NoUser]
    ELSE IF token.sub = NoSub
    THEN [status |-> 401, detail |-> "Could not validate credentials", user |-> NoUser]
    ELSE IF UserByEmail(token.sub) = NoUser
    THEN [status |-> 401, detail |-> "User not found", user |-> NoUser]
    ELSE IF ~users[UserByEmail(token.sub)].is_active
    THEN [status |-> 403, detail |-> "Inactive user", user |-> NoUser]
    ELSE [status |-> 200, detail |-> "", user |-> UserByEmail(token.sub)]

\* get_current_user_optional: the user, or None for every failure.
get_current_user_optional_ignoring_expiry(token) ==
    IF token = NoToken THEN NoUser
    ELSE IF token.sig # "good" THEN NoUser
    ELSE IF token.sub = NoSub THEN NoUser
    ELSE IF UserByEmail(token.sub) = NoUser
            \/ ~users[UserByEmail(token.sub)].is_active
    THEN NoUser
    ELSE UserByEmail(token.sub)

get_current_user_optional(token) ==
    IF token = NoToken THEN NoUser
    ELSE IF ~decode_token(token) THEN NoUser
    ELSE IF token.sub = NoSub THEN NoUser
    ELSE IF UserByEmail(token.sub) = NoUser
            \/ ~users[UserByEmail(token.sub)].is_active
    THEN NoUser
    ELSE UserByEmail(token.sub)

\* ---------------------------------------------------------------- ingestion
\* data.timestamp.isoformat() and datetime.fromisoformat(...): the time goes
\* through the queue as text.
isoformat(t) == <<"iso", t>>

fromisoformat(s) == s[2]

\* SensorReading(...) without its user_id.
NewReadingUnowned(user_id, gateway_id, node_id, timestamp, sub) ==
    [id |-> rid + 1, user_id |-> NoUser, gateway_id |-> gateway_id,
     node_id |-> node_id, timestamp |-> timestamp, sub |-> sub]

\* SensorReading(user_id=..., gateway_id=..., ...) once flushed: the row gets
\* the next id.  sub is a history field: the submission the row stems from.
\* A SensorReading written over the row with primary key 1.
NewReadingOverwriting(user_id, gateway_id, node_id, timestamp, sub) ==
    [id |-> 1, user_id |-> user_id, gateway_id |-> gateway_id,
     node_id |-> node_id, timestamp |-> timestamp, sub |-> sub]

NewReading(user_id, gateway_id, node_id, timestamp, sub) ==
    [id |-> rid + 1, user_id |-> user_id, gateway_id |-> gateway_id,
     node_id |-> node_id, timestamp |-> timestamp, sub |-> sub]

\* The try block of receive_sensor_data for the resolved user: queue the
\* reading when Celery is importable and delay() succeeds, otherwise write
\* it directly.  keys is the key table as committed by the key lookup.
IngestWithoutFallback(user, keys, data, enq, dbres) ==
    LET sub == nsub + 1
        data_dict == [user_id |-> user, gateway_id |-> data.gateway_id,
                      node_id |-> data.node_id,
                      timestamp |-> isoformat(data.timestamp)]
        task == [id |-> sub, data |-> data_dict, retries |-> 0, attempts |-> 0,
                 countdown |-> 0, state |-> "PENDING"]
    IN  IF celery /\ enq = "ok"
        THEN [api_keys |-> keys, readings |-> readings, jobs |-> jobs \cup {task},
              rid |-> rid, nsub |-> sub, status |-> 200,
              detail |-> "Data received and queued for processing",
              job_id |-> task.id, sub |-> sub, enq |-> enq, db |-> "n/a"]
        ELSE [api_keys |-> keys, readings |-> readings, jobs |-> jobs,
              rid |-> rid, nsub |-> nsub, status |-> 500,
              detail |-> "Failed to save data", job_id |-> NoJob, sub |-> sub,
              enq |-> IF celery THEN enq ELSE "unavailable", db |-> dbres]

IngestUndoingKeyUpdate(user, keys, data, enq, dbres) ==
    LET sub == nsub + 1
        data_dict == [user_id |-> user, gateway_id |-> data.gateway_id,
                      node_id |-> data.node_id,
                      timestamp |-> isoformat(data.timestamp)]
        task == [id |-> sub, data |-> data_dict, retries |-> 0, attempts |-> 0,
                 countdown |-> 0, state |-> "PENDING"]
        reading == NewReading(user, data.gateway_id, data.node_id, data.timestamp, sub)
        base == [api_keys |-> keys, readings |-> readings, jobs |-> jobs,
                 rid |-> rid, nsub |-> sub, status |-> 200, detail |-> "",
                 job_id |-> NoJob, sub |-> sub,
                 enq |-> IF celery THEN enq ELSE "unavailable", db |-> "n/a"]
    IN  IF celery /\ enq = "ok"
        THEN [base EXCEPT !.jobs = jobs \cup {task}, !.job_id = task.id,
                          !.detail = "Data received and queued for processing"]
        ELSE IF dbres = "ok"
        THEN [base EXCEPT !.readings = readings \cup {reading}, !.rid = rid + 1,
                          !.detail = "Data saved successfully", !.db = dbres]
        ELSE IF dbres = "refresh_fails"
        THEN [base EXCEPT !.readings = readings \cup {reading}, !.rid = rid + 1,
                          !.status = 500, !.detail = "Failed to save data",
                          !.db = dbres]
        ELSE [base EXCEPT !.api_keys = api_keys, !.nsub = nsub, !.status = 500,
                          !.detail = "Failed to save data", !.db = dbres]

IngestHidingJob(user, keys, data, enq, dbres) ==
    LET sub == nsub + 1
        data_dict == [user_id |-> user, gateway_id |-> data.gateway_id,
                      node_id |-> data.node_id,
                      timestamp |-> isoformat(data.timestamp)]
        task == [id |-> sub, data |-> data_dict, retries |-> 0, attempts |-> 0,
                 countdown |-> 0, state |-> "PENDING"]
        reading == NewReading(user, data.gateway_id, data.node_id, data.timestamp, sub)
        base == [api_keys |-> keys, readings |-> readings, jobs |-> jobs,
                 rid |-> rid, nsub |-> sub, status |-> 200, detail |-> "",
                 job_id |-> NoJob, sub |-> sub,
                 enq |-> IF celery THEN enq ELSE "unavailable", db |-> "n/a"]
    IN  IF celery /\ enq = "ok"
        THEN [base EXCEPT !.jobs = jobs \cup {task},
                          !.detail = "Data received and queued for processing"]
        ELSE IF dbres = "ok"
        THEN [base EXCEPT !.readings = readings \cup {reading}, !.rid = rid + 1,
                          !.detail = "Data saved successfully", !.db = dbres]
        ELSE IF dbres = "refresh_fails"
        THEN [base EXCEPT !.readings = readings \cup {reading}, !.rid = rid + 1,
                          !.status = 500, !.detail = "Failed to save data",
                          !.db = dbres]
        ELSE [base EXCEPT !.nsub = nsub, !.status = 500,
                          !.detail = "Failed to save data", !.db = dbres]

Ingest(user, keys, data, enq, dbres) ==
    LET sub == nsub + 1
        data_dict == [user_id |-> user, gateway_id |-> data.gateway_id,
                      node_id |-> data.node_id,
                      timestamp |-> isoformat(data.timestamp)]
        task == [id |-> sub, data |-> data_dict, retries |-> 0, attempts |-> 0,
                 countdown |-> 0, state |-> "PENDING"]
        reading == NewReading(user, data.gateway_id, data.node_id, data.timestamp, sub)
        base == [api_keys |-> keys, readings |-> readings, jobs |-> jobs,
                 rid |-> rid, nsub |-> sub, status |-> 200, detail |-> "",
                 job_id |-> NoJob, sub |-> sub,
                 enq |-> IF celery THEN enq ELSE "unavailable", db |-> "n/a"]
    IN  IF celery /\ enq = "ok"
        THEN [base EXCEPT !.jobs = jobs \cup {task}, !.job_id = task.id,
                          !.detail = "Data received and queued for processing"]
        ELSE IF dbres = "ok"
        THEN [base EXCEPT !.readings = readings \cup {reading}, !.rid = rid + 1,
                          !.detail = "Data saved successfully", !.db = dbres]
        ELSE IF dbres = "refresh_fails"
        THEN \* db.commit() went through, db.refresh() raised: the rollback in
             \* the handler finds nothing left to undo
             [base EXCEPT !.readings = readings \cup {reading}, !.rid = rid + 1,
                          !.status = 500, !.detail = "Failed to save data",
                          !.db = dbres]
        ELSE [base EXCEPT !.nsub = nsub, !.status = 500,
                          !.detail = "Failed to save data", !.db = dbres]

Rejected(keys, detail) ==
    [api_keys |-> keys, readings |-> readings, jobs |-> jobs, rid |-> rid,
     nsub |-> nsub, status |-> 401, detail |-> detail, job_id |-> NoJob,
     sub |-> nsub + 1, enq |-> "n/a", db |-> "n/a"]

\* POST /api/sensor-data
receive_sensor_data(x_api_key, token, data, enq, dbres) ==
    LET current_user == get_current_user_optional(token)
        api_key == KeyLookup(x_api_key)
        touched == [api_keys EXCEPT ![api_key].last_used_at = now]
        user == UserById(api_keys[api_key].user_id)
    IN  IF x_api_key # NoKey
        THEN IF api_key = NoKeyRow
             THEN Rejected(api_keys, "Invalid or inactive API key")
             ELSE IF KeyExpired(api_key)
             THEN Rejected(api_keys, "API key has expired")
             ELSE IF user = NoUser
             THEN Rejected(touched, "Authentication required")
             ELSE Ingest(user, touched, data, enq, dbres)
        ELSE IF current_user # NoUser
             THEN Ingest(current_user, api_keys, data, enq, dbres)
             ELSE Rejected(api_keys, "Authentication required")

\* One request to POST /api/sensor-data.  An outcome that the handler never
\* consults is fixed, so that each request is one transition.
Post(x_api_key, token, data, enq, dbres) ==
    /\ nsub < MaxSubmissions
    /\ (celery /\ enq = "ok") => dbres = "ok"
    /\ ~celery => enq = "fail"
    /\ LET out == receive_sensor_data(x_api_key, token, data, enq, dbres)
       IN  /\ out.status = 401 => (enq = "fail" /\ dbres = "ok")
           /\ Cardinality(out.readings) <= MaxRows
           /\ api_keys' = out.api_keys
           /\ readings' = out.readings
           /\ jobs' = out.jobs
           /\ rid' = out.rid
           /\ nsub' = out.nsub
           /\ resp' = [Idle EXCEPT !.op = "post", !.key = x_api_key,
                                   !.token = token, !.status = out.status,
                                   !.detail = out.detail, !.job_id = out.job_id,
                                   !.sub = out.sub, !.enq = out.enq,
                                   !.db = out.db]
    /\ UNCHANGED <<now, users, celery>>
    /\ UNCHANGED others

\* 2 * self.request.retries, a linear countdown.
TwiceRetries(n) == 2 * n

\* ------------------------------------------------------------------- worker
\* self.retry(exc=e, countdown=2 ** self.request.retries): the task is sent
\* again with retries + 1 unless that exceeds max_retries, in which case the
\* exception is re-raised and the task ends as failed.
Pow2(n) == IF n = 0 THEN 1 ELSE IF n = 1 THEN 2 ELSE IF n = 2 THEN 4 ELSE 8

retry_off_by_one(j) ==
    IF j.retries > max_retries
    THEN [j EXCEPT !.state = "FAILURE"]
    ELSE [j EXCEPT !.retries = @ + 1, !.state = "RETRY",
                   !.countdown = Pow2(j.retries)]

retry(j) ==
    IF j.retries + 1 > max_retries
    THEN [j EXCEPT !.state = "FAILURE"]
    ELSE [j EXCEPT !.retries = @ + 1, !.state = "RETRY",
                   !.countdown = Pow2(j.retries)]

\* One execution of tasks.save_sensor_data for the queued job j.
save_sensor_data_requeueing(j, dbres) ==
    LET sensor_reading ==
            NewReading(j.data.user_id, j.data.gateway_id, j.data.node_id,
                       fromisoformat(j.data.timestamp), j.id)
        committed == dbres \in {"ok", "refresh_fails"}
    IN  [readings |-> IF committed THEN readings \cup {sensor_reading} ELSE readings,
         rid |-> IF committed THEN rid + 1 ELSE rid,
         job |-> IF dbres = "ok"
                 THEN [j EXCEPT !.attempts = @ + 1, !.state = "SUCCESS"]
                 ELSE [j EXCEPT !.state = IF @ = "PENDING" THEN "RETRY"
                                          ELSE "PENDING"]]

save_sensor_data(j, dbres) ==
    LET sensor_reading ==
            NewReading(j.data.user_id, j.data.gateway_id, j.data.node_id,
                       fromisoformat(j.data.timestamp), j.id)
        ran == [j EXCEPT !.attempts = @ + 1]
        committed == dbres \in {"ok", "refresh_fails"}
    IN  [readings |-> IF committed THEN readings \cup {sensor_reading} ELSE readings,
         rid |-> IF committed THEN rid + 1 ELSE rid,
         job |-> IF dbres = "ok" THEN [ran EXCEPT !.state = "SUCCESS"]
                 ELSE retry(ran)]

RunJob(j, dbres) ==
    /\ j.state \in {"PENDING", "RETRY"}
    /\ LET out == save_sensor_data(j, dbres)
       IN  /\ Cardinality(out.readings) <= MaxRows
           /\ readings' = out.readings
           /\ rid' = out.rid
           /\ jobs' = (jobs \ {j}) \cup {out.job}
    /\ resp' = Idle
    /\ UNCHANGED <<now, users, api_keys, nsub, celery>>
    /\ UNCHANGED others

WorkerRun ==
    \E j \in jobs, dbres \in StoreOutcomes : RunJob(j, dbres)

\* -------------------------------------------------------------------- reads
GatewayFilters == {NoStr, "", "GW-1"}
NodeFilters == {NoStr, "N-1"}
HoursFilters == {0, 1}
Limits == {0, 1, MaxLimit, MaxLimit + 1}
Skips == {0, 1}

\* The rows selected by get_sensor_data's query: the owner filter, then each
\* filter whose parameter is truthy (hours = 0 stands for None).
SelectedOwnerOnlyUnfiltered(user, gateway_id, node_id, hours) ==
    {r \in readings :
        /\ (gateway_id \in {NoStr, ""} /\ node_id \in {NoStr, ""} /\ hours = 0
                => r.user_id = user)
        /\ (gateway_id \notin {NoStr, ""} => r.gateway_id = gateway_id)
        /\ (node_id \notin {NoStr, ""} => r.node_id = node_id)
        /\ (hours # 0 => r.timestamp >= now - hours)}

SelectedEmptyRestricts(user, gateway_id, node_id, hours) ==
    {r \in readings :
        /\ r.user_id = user
        /\ (gateway_id # NoStr => r.gateway_id = gateway_id)
        /\ (node_id # NoStr => r.node_id = node_id)
        /\ (hours # 0 => r.timestamp >= now - hours)}

Selected(user, gateway_id, node_id, hours) ==
    {r \in readings :
        /\ r.user_id = user
        /\ (gateway_id \notin {NoStr, ""} => r.gateway_id = gateway_id)
        /\ (node_id \notin {NoStr, ""} => r.node_id = node_id)
        /\ (hours # 0 => r.timestamp >= now - hours)}

\* order_by(desc(timestamp)): every sequence of the rows with non-increasing
\* timestamps; the store is free in how it orders equal timestamps.
RECURSIVE Orderings(_)
Orderings(S) ==
    IF S = {} THEN {<<>>}
    ELSE UNION {{<<r>> \o rest : rest \in Orderings(S \ {r})} :
                r \in {x \in S : \A y \in S : x.timestamp >= y.timestamp}}

\* offset(skip).limit(limit)
Page(ordered, skip, limit) ==
    SubSeq(ordered, skip + 1,
           IF skip + limit < Len(ordered) THEN skip + limit ELSE Len(ordered))

\* limit: int = Query(100, ge=1, le=1000)
limit_unchecked(limit) == TRUE

limit_valid(limit) == limit >= 1 /\ limit <= MaxLimit

\* One request to GET /api/sensor-data.  x_api_key is the X-API-Key header of
\* the request, which the handler does not declare and so never reads.  The
\* dependency get_current_user is solved before the query parameters are
\* validated, so a request without a valid token is answered 401 whatever its
\* parameters; a request whose limit fails the declared range is answered 422
\* and the handler body never runs.
get_sensor_data(x_api_key, token, gateway_id, node_id, hours, limit, skip) ==
    LET auth == get_current_user(token)
        request == [Idle EXCEPT !.op = "list", !.key = x_api_key, !.token = token,
                                !.gateway_id = gateway_id, !.node_id = node_id,
                                !.hours = hours, !.limit = limit, !.skip = skip]
    IN  /\ IF auth.status # 200
           THEN /\ gateway_id = NoStr /\ node_id = NoStr /\ hours = 0
                /\ limit = MaxLimit /\ skip = 0
                /\ resp' = [request EXCEPT !.status = auth.status,
                                           !.detail = auth.detail]
           ELSE IF ~limit_valid(limit)
           THEN /\ gateway_id = NoStr /\ node_id = NoStr /\ hours = 0
                /\ skip = 0
                /\ resp' = [request EXCEPT !.status = 422,
                                           !.detail = "validation error"]
           ELSE \E ordered \in Orderings(Selected(auth.user, gateway_id,
                                                  node_id, hours)) :
                    resp' = [request EXCEPT !.status = 200,
                                            !.rows = Page(ordered, skip, limit)]
        /\ UNCHANGED <<now, users, api_keys, readings, jobs, nsub, rid, celery>>
        /\ UNCHANGED others

\* filter(SensorReading.user_id == current_user.id)
OwnedByAnyone(user) == readings

OwnedBy(user) == {r \in readings : r.user_id = user}

\* The store answers a query without order_by in any row order.
RECURSIVE Enumerations(_)
Enumerations(S) ==
    IF S = {} THEN {<<>>}
    ELSE UNION {{<<r>> \o rest : rest \in Enumerations(S \ {r})} : r \in S}

\* db.query(SensorReading.<column>): one value for each row
Column(scan, column) == [i \in DOMAIN scan |-> scan[i][column]]

\* .distinct(): each value once
keep_all(values) == values

RECURSIVE distinct(_)
distinct(values) ==
    IF values = <<>> THEN <<>>
    ELSE LET front == distinct(SubSeq(values, 1, Len(values) - 1))
             last == values[Len(values)]
         IN  IF \E i \in DOMAIN front : front[i] = last
             THEN front
             ELSE Append(front, last)

\* One request to GET /api/gateways
get_gateways(x_api_key, token) ==
    LET auth == get_current_user(token)
        request == [Idle EXCEPT !.op = "gateways", !.key = x_api_key,
                                !.token = token]
    IN  /\ IF auth.status # 200
           THEN resp' = [request EXCEPT !.status = auth.status,
                                        !.detail = auth.detail]
           ELSE \E scan \in Enumerations(OwnedBy(auth.user)) :
                    resp' = [request EXCEPT !.status = 200,
                                !.values = distinct(Column(scan, "gateway_id"))]
        /\ UNCHANGED <<now, users, api_keys, readings, jobs, nsub, rid, celery>>
        /\ UNCHANGED others

\* One request to GET /api/nodes: the gateway filter is added when the
\* parameter is truthy.
get_nodes(x_api_key, token, gateway_id) ==
    LET auth == get_current_user(token)
        request == [Idle EXCEPT !.op = "nodes", !.key = x_api_key,
                                !.token = token, !.gateway_id = gateway_id]
    IN  /\ IF auth.status # 200
           THEN /\ gateway_id = NoStr
                /\ resp' = [request EXCEPT !.status = auth.status,
                                           !.detail = auth.detail]
           ELSE \E scan \in Enumerations(
                        {r \in OwnedBy(auth.user) :
                            gateway_id \notin {NoStr, ""}
                                => r.gateway_id = gateway_id}) :
                    resp' = [request EXCEPT !.status = 200,
                                !.values = distinct(Column(scan, "node_id"))]
        /\ UNCHANGED <<now, users, api_keys, readings, jobs, nsub, rid, celery>>
        /\ UNCHANGED others

\* One request to GET /api/stats
get_stats(x_api_key, token) ==
    LET auth == get_current_user(token)
        request == [Idle EXCEPT !.op = "stats", !.key = x_api_key,
                                !.token = token]
    IN  /\ IF auth.status # 200
           THEN resp' = [request EXCEPT !.status = auth.status,
                                        !.detail = auth.detail]
           ELSE \E scan \in Enumerations(OwnedBy(auth.user)),
                   ordered \in Orderings(OwnedBy(auth.user)) :
                    resp' = [request EXCEPT !.status = 200, !.stats =
                        [total_readings |-> Len(scan),
                         total_gateways |->
                            Len(distinct(Column(scan, "gateway_id"))),
                         total_nodes |-> Len(distinct(Column(scan, "node_id"))),
                         latest_reading_time |->
                            IF ordered = <<>> THEN NoIsoTime
                            ELSE isoformat(ordered[1].timestamp)]]
        /\ UNCHANGED <<now, users, api_keys, readings, jobs, nsub, rid, celery>>
        /\ UNCHANGED others

\* One request to GET /api/auth/me
get_current_user_info(token) ==
    LET auth == get_current_user(token)
        request == [Idle EXCEPT !.op = "me", !.token = token]
    IN  /\ resp' = IF auth.status # 200
                   THEN [request EXCEPT !.status = auth.status,
                                        !.detail = auth.detail]
                   ELSE [request EXCEPT !.status = 200,
                                        !.email = users[auth.user].email,
                                        !.username = users[auth.user].username]
        /\ UNCHANGED <<now, users, api_keys, readings, jobs, nsub, rid, celery>>
        /\ UNCHANGED others

\* One request to POST /api/auth/refresh.
refresh_token(token) ==
    LET auth == get_current_user(token)
        request == [Idle EXCEPT !.op = "refresh", !.token = token]
    IN  /\ resp' = IF auth.status # 200
                   THEN [request EXCEPT !.status = auth.status,
                                        !.detail = auth.detail]
                   ELSE [request EXCEPT !.status = 200,
                            !.access_token =
                                create_access_token(users[auth.user].email, now),
                            !.refresh_token =
                                create_refresh_token(users[auth.user].email, now)]
        /\ UNCHANGED <<now, users, api_keys, readings, jobs, nsub, rid, celery>>
        /\ UNCHANGED others

\* ------------------------------------------------------------ rate limiter
\* limiter = Limiter(key_func=get_remote_address) with the library defaults:
\* in-memory storage and the fixed-window strategy.  clock is time.time() in
\* seconds; now is the same wall clock in whole hours.
LoginLimit == [amount |-> 5, expiry |-> MINUTE]

ResetLimit == [amount |-> 3, expiry |-> HOUR]

Addresses == {"10.0.0.1", "10.0.0.2"}

Scopes == {"login", "reset"}

NoEntry == [count |-> 0, expiry |-> 0]

\* The counter a request is counted on: the client address and the endpoint.
LimitKey(address, scope) == <<address, scope>>

\* MemoryStorage.get: a counter whose expiry time is reached is gone.
Entry(key) ==
    IF limiter[key].expiry <= clock THEN NoEntry ELSE limiter[key]

\* MemoryStorage.incr without elastic expiry: the counter is raised, and the
\* expiry is set when the counter is created.
incr(key, expiry) ==
    [count |-> Entry(key).count + 1,
     expiry |-> IF Entry(key).count = 0 THEN clock + expiry ELSE Entry(key).expiry]

\* FixedWindowRateLimiter.hit: the request is counted, and it is admitted
\* when the counter does not exceed the limit's amount.
hit_one_late(key, item) == incr(key, item.expiry).count <= item.amount + 1

hit(key, item) == incr(key, item.expiry).count <= item.amount

\* The storage after time passes to t: expired counters are removed.
Expire(t) ==
    [key \in DOMAIN limiter |->
        IF limiter[key].expiry <= t THEN NoEntry ELSE limiter[key]]

\* History: the times of the admitted requests of each address and endpoint
\* that lie less than the limit's expiry before t.
Trim(t) ==
    [key \in DOMAIN recent |->
        SelectSeq(recent[key],
                  LAMBDA x : x > t - (IF key[2] = "login" THEN LoginLimit.expiry
                                      ELSE ResetLimit.expiry))]

\* ---------------------------------------------------------------- accounts
\* pwd_context.hash and pwd_context.verify
hash_password(password) == <<"bcrypt", password>>

verify_password(plain_password, hashed_password) ==
    hashed_password = hash_password(plain_password)

authenticate_user_by_email(email, password) == UserByEmail(email)

authenticate_user(email, password) ==
    IF UserByEmail(email) = NoUser THEN NoUser
    ELSE IF ~verify_password(password, users[UserByEmail(email)].hashed_password)
    THEN NoUser
    ELSE UserByEmail(email)

\* One request to POST /api/auth/login from a client address.
login(address, email, password) ==
    LET key == LimitKey(address, "login")
        admitted == hit(key, LoginLimit)
        user == authenticate_user(email, password)
        request == [Idle EXCEPT !.op = "login", !.addr = address,
                                !.email = email, !.password = password]
    IN  /\ Entry(key).count < LoginLimit.amount + MaxRejected
        /\ limiter' = [limiter EXCEPT ![key] = incr(key, LoginLimit.expiry)]
        /\ recent' = IF admitted
                     THEN [recent EXCEPT ![<<address, "login">>] = Append(@, clock)]
                     ELSE recent
        /\ resp' = IF ~admitted
                   THEN [request EXCEPT !.status = 429,
                            !.detail = "Too many requests. Please try again later."]
                   ELSE IF user = NoUser
                   THEN [request EXCEPT !.status = 401,
                            !.detail = "Incorrect email or password"]
                   ELSE [request EXCEPT !.status = 200,
                            !.access_token = create_access_token(users[user].email, now),
                            !.refresh_token = create_refresh_token(users[user].email, now)]
        /\ UNCHANGED <<now, users, api_keys, readings, jobs, nsub, rid, celery,
                       inflight, clock, otps, registering, confirming>>

\* db.query(User).filter(User.email == data.email).first(), answering for
\* every email.
UserByEmailOrAnyone(email) ==
    IF UserByEmail(email) # NoUser THEN UserByEmail(email)
    ELSE CHOOSE u \in DOMAIN users : TRUE

\* The user the reset request looks up.
reset_lookup(email) == UserByEmail(email)

\* One request to POST /api/auth/password-reset/request; otp_code is the
\* outcome of random.choices.
request_password_reset(address, email, otp_code) ==
    LET key == LimitKey(address, "reset")
        admitted == hit(key, ResetLimit)
        user == reset_lookup(email)
        otp_entry == [email |-> email, otp_code |-> otp_code,
                      expires_at |-> clock + OTP_EXPIRE_SECONDS, is_used |-> FALSE]
        request == [Idle EXCEPT !.op = "reset", !.addr = address, !.email = email]
    IN  /\ Entry(key).count < ResetLimit.amount + MaxRejected
        /\ (admitted /\ user # NoUser) => Len(otps) < MaxOtps
        /\ limiter' = [limiter EXCEPT ![key] = incr(key, ResetLimit.expiry)]
        /\ recent' = IF admitted
                     THEN [recent EXCEPT ![<<address, "reset">>] = Append(@, clock)]
                     ELSE recent
        /\ otps' = IF admitted /\ user # NoUser THEN Append(otps, otp_entry) ELSE otps
        /\ resp' = IF ~admitted
                   THEN [request EXCEPT !.status = 429,
                            !.detail = "Too many requests. Please try again later."]
                   ELSE [request EXCEPT !.status = 200,
                            !.detail = "If the email exists, an OTP has been sent"]
        /\ UNCHANGED <<now, users, api_keys, readings, jobs, nsub, rid, celery,
                       inflight, clock, registering, confirming>>

\* The rows of password_reset_otps that the query of confirm_password_reset
\* selects: same email, same code, not used, not expired now.
ValidOtpsIgnoringExpiry(email, otp_code) ==
    {i \in DOMAIN otps : /\ otps[i].email = email
                         /\ otps[i].otp_code = otp_code
                         /\ otps[i].is_used = FALSE}

ValidOtps(email, otp_code) ==
    {i \in DOMAIN otps : /\ otps[i].email = email
                         /\ otps[i].otp_code = otp_code
                         /\ otps[i].is_used = FALSE
                         /\ otps[i].expires_at > clock}

\* One request to POST /api/auth/password-reset/confirm.  The query has no
\* order_by, so first() may be any of the selected rows.
confirm_password_reset(email, otp_code, new_password) ==
    LET valid == ValidOtps(email, otp_code)
        user == UserByEmail(email)
        request == [Idle EXCEPT !.op = "confirm", !.email = email,
                                !.otp_code = otp_code, !.password = new_password]
    IN  /\ IF valid = {}
           THEN /\ resp' = [request EXCEPT !.status = 400,
                                           !.detail = "Invalid or expired OTP"]
                /\ UNCHANGED <<users, otps>>
           ELSE IF user = NoUser
           THEN /\ resp' = [request EXCEPT !.status = 404,
                                           !.detail = "User not found"]
                /\ UNCHANGED <<users, otps>>
           ELSE \E otp_entry \in valid :
                /\ users' = [users EXCEPT
                                ![user].hashed_password = hash_password(new_password)]
                /\ otps' = [otps EXCEPT ![otp_entry].is_used = TRUE]
                /\ resp' = [request EXCEPT !.status = 200,
                                           !.detail = "Password reset successful"]
        /\ UNCHANGED <<now, api_keys, readings, jobs, nsub, rid, celery,
                       inflight, clock, limiter, recent, registering, confirming>>

\* ------------------------------------------------ concurrent key use
\* receive_sensor_data in server processes that run at the same time, each
\* with its own database session (get_db): the handler's steps on the key
\* table are separate.  inflight[h] is handler h's position and its session's
\* pending change.
Handlers == {1, 2}

Waiting == [pc |-> "waiting", key |-> NoKeyRow, t |-> NoTime]

\* The key lookup, the expiry check and api_key.last_used_at =
\* datetime.utcnow(): the new value is in the session, not in the store.
AssignLastUsed(h, x_api_key) ==
    /\ inflight[h].pc = "waiting"
    /\ LET api_key == KeyLookup(x_api_key)
       IN  IF api_key = NoKeyRow
           THEN /\ resp' = [Idle EXCEPT !.op = "post", !.key = x_api_key,
                                        !.status = 401,
                                        !.detail = "Invalid or inactive API key"]
                /\ UNCHANGED inflight
           ELSE IF KeyExpired(api_key)
           THEN /\ resp' = [Idle EXCEPT !.op = "post", !.key = x_api_key,
                                        !.status = 401,
                                        !.detail = "API key has expired"]
                /\ UNCHANGED inflight
           ELSE /\ inflight' = [inflight EXCEPT ![h] =
                        [pc |-> "assigned", key |-> api_key, t |-> now]]
                /\ resp' = Idle
    /\ UNCHANGED <<now, users, api_keys, readings, jobs, nsub, rid, celery>>
    /\ UNCHANGED <<clock, limiter, recent, otps, registering, confirming>>

\* db.commit(): the session flushes UPDATE api_keys SET last_used_at = t for
\* its row and commits.
CommitLastUsed(h) ==
    /\ inflight[h].pc = "assigned"
    /\ api_keys' = [api_keys EXCEPT ![inflight[h].key].last_used_at = inflight[h].t]
    /\ inflight' = [inflight EXCEPT ![h].pc = "committed"]
    /\ resp' = Idle
    /\ UNCHANGED <<now, users, readings, jobs, nsub, rid, celery>>
    /\ UNCHANGED <<clock, limiter, recent, otps, registering, confirming>>

\* The rest of the handler: the owner is fetched and the reading is queued
\* or written.
FinishSubmission(h, data, enq, dbres) ==
    /\ inflight[h].pc = "committed"
    /\ nsub < MaxSubmissions
    /\ (celery /\ enq = "ok") => dbres = "ok"
    /\ ~celery => enq = "fail"
    /\ LET user == UserById(api_keys[inflight[h].key].user_id)
           out == IF user = NoUser
                  THEN Rejected(api_keys, "Authentication required")
                  ELSE Ingest(user, api_keys, data, enq, dbres)
       IN  /\ out.status = 401 => (enq = "fail" /\ dbres = "ok")
           /\ Cardinality(out.readings) <= MaxRows
           /\ readings' = out.readings
           /\ jobs' = out.jobs
           /\ rid' = out.rid
           /\ nsub' = out.nsub
           /\ resp' = [Idle EXCEPT !.op = "post",
                                   !.key = api_keys[inflight[h].key].key_value,
                                   !.status = out.status,
                                   !.detail = out.detail, !.job_id = out.job_id,
                                   !.sub = out.sub, !.enq = out.enq,
                                   !.db = out.db]
    /\ inflight' = [inflight EXCEPT ![h] = Waiting]
    /\ UNCHANGED <<now, users, api_keys, celery>>
    /\ UNCHANGED <<clock, limiter, recent, otps, registering, confirming>>

\* -------------------------------------------------------------- environment
\* The clock (datetime.utcnow()) advances.
Tick ==
    /\ now < MaxTime
    /\ now' = now + 1
    /\ clock' = now' * HOUR
    /\ limiter' = Expire(clock')
    /\ recent' = Trim(clock')
    /\ resp' = Idle
    /\ UNCHANGED <<users, api_keys, readings, jobs, nsub, rid, celery,
                   inflight, otps, registering, confirming>>

\* The clock passes to a later instant at which requests arrive.
Advance(t) ==
    /\ t > clock
    /\ clock' = t
    /\ now' = t \div HOUR
    /\ limiter' = Expire(t)
    /\ recent' = Trim(t)
    /\ resp' = Idle
    /\ UNCHANGED <<users, api_keys, readings, jobs, nsub, rid, celery,
                   inflight, otps, registering, confirming>>

\* users.is_active is a mutable column: an operator deactivates or
\* reactivates an account.
SetUserActive ==
    \E u \in DOMAIN users :
        /\ users' = [users EXCEPT ![u].is_active = ~@]
        /\ resp' = Idle
        /\ UNCHANGED <<now, api_keys, readings, jobs, nsub, rid, celery>>
        /\ UNCHANGED others

\* ------------------------------------------------------------ registration
\* register_user is a plain def, so FastAPI runs each request on a worker
\* thread with its own session and two requests interleave between the two
\* existence queries and the commit.  registering[h] is the request that
\* handler h has checked and not yet committed.
NotRegistering ==
    [pc |-> "idle", username |-> NoStr, email |-> NoStr, password |-> NoStr]

\* db.query(User).filter(User.username == username).first(); username is unique
UserByUsername(username) ==
    IF \E u \in DOMAIN users : users[u].username = username
    THEN CHOOSE u \in DOMAIN users : users[u].username = username
    ELSE NoUser

\* The primary key the sequence of users.id gives the next row.
NextUserId == Cardinality(DOMAIN users) + 1

\* The two existence queries of POST /api/auth/register.
CheckRegistration(h, username, email, password) ==
    LET request == [Idle EXCEPT !.op = "register", !.username = username,
                                !.email = email, !.password = password]
    IN  /\ registering[h].pc = "idle"
        /\ IF UserByEmail(email) # NoUser
           THEN /\ resp' = [request EXCEPT !.status = 400,
                                           !.detail = "Email already registered"]
                /\ UNCHANGED registering
           ELSE IF UserByUsername(username) # NoUser
           THEN /\ resp' = [request EXCEPT !.status = 400,
                                           !.detail = "Username already taken"]
                /\ UNCHANGED registering
           ELSE /\ resp' = Idle
                /\ registering' = [registering EXCEPT ![h] =
                        [pc |-> "checked", username |-> username,
                         email |-> email, password |-> password]]
        /\ UNCHANGED <<now, users, api_keys, readings, jobs, nsub, rid, celery,
                       inflight, clock, limiter, recent, otps, confirming>>

\* unique=True on users.username and users.email: the INSERT of a row that
\* repeats either is refused by the database.
unique_holds(row) ==
    \A u \in DOMAIN users :
        users[u].username # row.username /\ users[u].email # row.email

\* db.add(new_user); db.commit(); db.refresh(new_user).  An IntegrityError of
\* the commit is not caught: the request ends with 500.
CommitRegistration(h) ==
    LET data == registering[h]
        new_user == [username |-> data.username, email |-> data.email,
                     is_active |-> TRUE,
                     hashed_password |-> hash_password(data.password)]
        request == [Idle EXCEPT !.op = "register", !.username = data.username,
                                !.email = data.email, !.password = data.password]
    IN  /\ data.pc = "checked"
        /\ IF unique_holds(new_user)
           THEN /\ users' = users @@ (NextUserId :> new_user)
                /\ resp' = [request EXCEPT !.status = 201]
           ELSE /\ users' = users
                /\ resp' = [request EXCEPT !.status = 500,
                                           !.detail = "Internal Server Error"]
        /\ registering' = [registering EXCEPT ![h] = NotRegistering]
        /\ UNCHANGED <<now, api_keys, readings, jobs, nsub, rid, celery,
                       inflight, clock, limiter, recent, otps, confirming>>

\* ------------------------------------------------------------------ cleanup
\* filter(SensorReading.timestamp < cutoff_date), cutoff_date being
\* utcnow() - timedelta(days=days)
StaleInclusive(r, days) == r.timestamp <= now - HOURS_PER_DAY * days

Stale(r, days) == r.timestamp < now - HOURS_PER_DAY * days

CleanupOutcomes == {"ok", "fails"}

\* One run of tasks.cleanup_old_data.  dbres says whether delete and commit go
\* through; when they raise, the session is rolled back and the task returns
\* its error dict.
cleanup_old_data(days, dbres) ==
    LET kept == {r \in readings : ~Stale(r, days)}
        request == [Idle EXCEPT !.op = "cleanup", !.days = days, !.db = dbres]
    IN  /\ IF dbres = "ok"
           THEN /\ readings' = kept
                /\ resp' = [request EXCEPT !.detail = "success",
                                !.deleted_count = Cardinality(readings \ kept)]
           ELSE /\ readings' = readings
                /\ resp' = [request EXCEPT !.detail = "error"]
        /\ UNCHANGED <<now, users, api_keys, jobs, nsub, rid, celery>>
        /\ UNCHANGED others

\* ---------------------------------------------------- concurrent confirms
\* confirm_password_reset is a plain def: each request runs on a worker thread
\* with its own session.  The SELECTs take no lock, and the UPDATEs of the
\* commit address the two rows by primary key, so a commit writes what its
\* session decided whatever was committed since it read.  confirming[h] is what
\* handler h's session holds between its queries and its commit.
NotConfirming ==
    [pc |-> "idle", email |-> NoStr, otp_code |-> NoStr, password |-> NoStr,
     otp_entry |-> 0, user |-> NoUser]

\* The two queries of POST /api/auth/password-reset/confirm.
FindOtp(h, email, otp_code, new_password) ==
    LET valid == ValidOtps(email, otp_code)
        user == UserByEmail(email)
        request == [Idle EXCEPT !.op = "confirm", !.email = email,
                                !.otp_code = otp_code, !.password = new_password]
    IN  /\ confirming[h].pc = "idle"
        /\ IF valid = {}
           THEN /\ resp' = [request EXCEPT !.status = 400,
                                           !.detail = "Invalid or expired OTP"]
                /\ UNCHANGED confirming
           ELSE IF user = NoUser
           THEN /\ resp' = [request EXCEPT !.status = 404,
                                           !.detail = "User not found"]
                /\ UNCHANGED confirming
           ELSE \E otp_entry \in valid :
                /\ resp' = Idle
                /\ confirming' = [confirming EXCEPT ![h] =
                        [pc |-> "found", email |-> email, otp_code |-> otp_code,
                         password |-> new_password, otp_entry |-> otp_entry,
                         user |-> user]]
        /\ UNCHANGED <<now, users, api_keys, readings, jobs, nsub, rid, celery,
                       inflight, clock, limiter, recent, otps, registering>>

\* user.hashed_password = ...; otp_entry.is_used = True; db.commit()
CommitReset(h) ==
    LET session == confirming[h]
    IN  /\ session.pc = "found"
        /\ users' = [users EXCEPT ![session.user].hashed_password =
                                        hash_password(session.password)]
        /\ otps' = [otps EXCEPT ![session.otp_entry].is_used = TRUE]
        /\ resp' = [Idle EXCEPT !.op = "confirm", !.email = session.email,
                                !.otp_code = session.otp_code,
                                !.password = session.password,
                                !.status = 200,
                                !.detail = "Password reset successful"]
        /\ confirming' = [confirming EXCEPT ![h] = NotConfirming]
        /\ UNCHANGED <<now, api_keys, readings, jobs, nsub, rid, celery,
                       inflight, clock, limiter, recent, registering>>

\* ------------------------------------------------------------ specifications
Init ==
    /\ now = 0
    /\ users = (1 :> [username |-> "user1", email |-> "u1@x", is_active |-> TRUE,
                      hashed_password |-> hash_password("pw1")])
            @@ (2 :> [username |-> "user2", email |-> "u2@x", is_active |-> TRUE,
                      hashed_password |-> hash_password("pw2")])
    /\ api_keys =
            (1 :> [user_id |-> 1, key_value |-> "lora_a", last_used_at |-> NoTime,
                   expires_at |-> NoTime, is_active |-> TRUE])
         @@ (2 :> [user_id |-> 2, key_value |-> "lora_b", last_used_at |-> NoTime,
                   expires_at |-> 0, is_active |-> TRUE])
         @@ (3 :> [user_id |-> 1, key_value |-> "lora_c", last_used_at |-> NoTime,
                   expires_at |-> NoTime, is_active |-> FALSE])
    /\ readings = {}
    /\ jobs = {}
    /\ nsub = 0
    /\ rid = 0
    /\ celery \in BOOLEAN
    /\ resp = Idle
    /\ inflight = [h \in Handlers |-> Waiting]
    /\ registering = [h \in Handlers |-> NotRegistering]
    /\ confirming = [h \in Handlers |-> NotConfirming]
    /\ clock = 0
    /\ limiter = [key \in Addresses \X Scopes |-> NoEntry]
    /\ recent = [key \in Addresses \X Scopes |-> <<>>]
    /\ otps = <<>>

\* The ingestion pipeline: gateways of two tenants submit readings, one with
\* its API key and one with a bearer token; the queue and the store may fail
\* at every step; the worker runs the queued jobs.
GatewayCredentials ==
    {<<"lora_a", NoToken>>, <<NoKey, create_access_token("u2@x", 0)>>}

SubmitReading ==
    \E cred \in GatewayCredentials, data \in {ProbePayload},
       enq \in EnqueueOutcomes, dbres \in StoreOutcomes :
        Post(cred[1], cred[2], data, enq, dbres)

Next ==
    \/ SubmitReading
    \/ WorkerRun

Spec == Init /\ [][Next]_vars

\* The Celery worker keeps taking the jobs that wait in the queue.
SpecWorker == Spec /\ WF_vars(WorkerRun)

\* Credential resolution: clients send every combination of API-key header
\* and bearer token, while the clock advances and accounts are deactivated.
SubmitWithCredentials ==
    \E x_api_key \in KeyHeaders, token \in Tokens,
       enq \in EnqueueOutcomes, dbres \in StoreOutcomes :
        /\ nsub < MaxProbes
        /\ Post(x_api_key, token, ProbePayload, enq, dbres)

ListUnfiltered ==
    \E token \in Tokens :
        get_sensor_data(NoKey, token, NoStr, NoStr, 0, MaxLimit, 0)

WhoAmI ==
    \E token \in Tokens : get_current_user_info(token)

NextAuth ==
    \/ SubmitWithCredentials
    \/ ListUnfiltered
    \/ WhoAmI
    \/ Tick
    \/ SetUserActive

SpecAuth == Init /\ [][NextAuth]_vars

\* Tenant-scoped reads: both tenants' gateways fill the store through the
\* queue and through the direct write, and both tenants query it with every
\* filter combination.
ReaderTokens == {create_access_token(e, 0) : e \in Emails}

SubmitStored ==
    \E cred \in GatewayCredentials, data \in Payloads, enq \in EnqueueOutcomes :
        Post(cred[1], cred[2], data, enq, "ok")

WorkerStores ==
    \E j \in jobs : RunJob(j, "ok")

\* The query strings of the unpaged list requests, every combination of
\* filters: <<gateway_id, node_id, hours, limit, skip>>
FilterQueries ==
    {<<g, n, h, MaxLimit, 0>> :
        g \in GatewayFilters, n \in NodeFilters, h \in HoursFilters}

QueryReadings ==
    \E token \in ReaderTokens, q \in FilterQueries :
        get_sensor_data(NoKey, token, q[1], q[2], q[3], q[4], q[5])

NextRead ==
    \/ SubmitStored
    \/ WorkerStores
    \/ QueryReadings

SpecRead == Init /\ [][NextRead]_vars

\* Gateways that share one API key, or use two, submit at the same time
\* through several server processes while the clock advances.
SharedKeys == {"lora_a", "lora_b"}

HandlerLooksUp ==
    \E h \in Handlers, x_api_key \in SharedKeys : AssignLastUsed(h, x_api_key)

HandlerCommits ==
    \E h \in Handlers : CommitLastUsed(h)

HandlerFinishes ==
    \E h \in Handlers, enq \in EnqueueOutcomes, dbres \in StoreOutcomes :
        FinishSubmission(h, ProbePayload, enq, dbres)

NextKeyUse ==
    \/ HandlerLooksUp
    \/ HandlerCommits
    \/ HandlerFinishes
    \/ Tick

SpecKeyUse == Init /\ [][NextKeyUse]_vars

\* Clients at two addresses log in, with good and bad credentials, during
\* the first minutes and ask for password resets during the hours after, at
\* a few instants around the ends of the limiter's windows.
LoginInstants == {0, 40, 60}

ResetInstants == {3600, 3660, 7200}

LoginInputs == {<<"u1@x", "pw1">>, <<"u1@x", "wrong">>, <<"ghost@x", "pw1">>}

ResetEmails == {"u1@x", "ghost@x"}

OtpCodes == {"123456"}

ClientLogsIn ==
    \E address \in Addresses, c \in LoginInputs :
        /\ clock \in LoginInstants
        /\ login(address, c[1], c[2])

ClientAsksReset ==
    \E address \in Addresses, email \in ResetEmails, otp_code \in OtpCodes :
        /\ clock \in ResetInstants
        /\ request_password_reset(address, email, otp_code)

TimePasses ==
    \E t \in LoginInstants \cup ResetInstants : Advance(t)

NextLimit ==
    \/ ClientLogsIn
    \/ ClientAsksReset
    \/ TimePasses

InitLimit == Init /\ celery

SpecLimit == InitLimit /\ [][NextLimit]_vars

\* Reads with every pair of API-key header and bearer token, over a store
\* that holds a reading of the key's owner, while the clock advances and
\* accounts are deactivated.
ReadKeyHeaders == {NoKey, "lora_a", "lora_x"}

KeyOwnerSubmits ==
    /\ nsub < MaxProbes
    /\ Post("lora_a", NoToken, ProbePayload, "fail", "ok")

ListWithCredentials ==
    \E x_api_key \in ReadKeyHeaders, token \in Tokens :
        get_sensor_data(x_api_key, token, NoStr, NoStr, 0, MaxLimit, 0)

GatewaysWithCredentials ==
    \E x_api_key \in ReadKeyHeaders, token \in Tokens :
        get_gateways(x_api_key, token)

NodesWithCredentials ==
    \E x_api_key \in ReadKeyHeaders, token \in Tokens :
        get_nodes(x_api_key, token, NoStr)

StatsWithCredentials ==
    \E x_api_key \in ReadKeyHeaders, token \in Tokens :
        get_stats(x_api_key, token)

\* Password reset: one client asks for codes and confirms them, with right and
\* wrong emails and codes, before and after a code's fifteen minutes are over.
ConfirmInstants == {600, 900, 1500}
RequestEmails == {"u1@x", "ghost@x"}
ConfirmEmails == {"u1@x", "u2@x"}
ResetCodes == {"123456", "654321"}
NewPasswords == {"new1"}

ClientRequestsCode ==
    \E email \in RequestEmails, otp_code \in ResetCodes :
        request_password_reset("10.0.0.1", email, otp_code)

ClientConfirms ==
    \E email \in ConfirmEmails, otp_code \in ResetCodes,
       new_password \in NewPasswords :
        confirm_password_reset(email, otp_code, new_password)

MinutesPass == \E t \in ConfirmInstants : Advance(t)

NextReset ==
    \/ ClientRequestsCode
    \/ ClientConfirms
    \/ MinutesPass

SpecReset == InitLimit /\ [][NextReset]_vars

\* Registration: two requests at a time, with a taken and two free emails and
\* a taken and two free usernames.
RegisterUsernames == {"user1", "newbie", "rookie"}
RegisterEmails == {"u1@x", "new@x", "fresh@x"}
RegisterPasswords == {"secret9"}

RequestChecked ==
    \E h \in Handlers, username \in RegisterUsernames, email \in RegisterEmails,
       password \in RegisterPasswords :
        CheckRegistration(h, username, email, password)

RequestCommitted == \E h \in Handlers : CommitRegistration(h)

NextRegister ==
    \/ RequestChecked
    \/ RequestCommitted

SpecRegister == InitLimit /\ [][NextRegister]_vars

\* Token use: gateways submit with refresh tokens (and with tokens that are
\* no good), while every token is shown to the list, to /me and to /refresh.
RefreshTokens == {create_refresh_token(e, 0) : e \in Emails}

SessionTokens == Tokens \cup RefreshTokens

SubmitWithRefreshToken ==
    \E token \in SessionTokens \ {create_access_token(e, 0) : e \in Emails},
       enq \in EnqueueOutcomes :
        Post(NoKey, token, ProbePayload, enq, "ok")

ListWithToken ==
    \E token \in SessionTokens :
        get_sensor_data(NoKey, token, NoStr, NoStr, 0, MaxLimit, 0)

MeWithToken == \E token \in SessionTokens : get_current_user_info(token)

RefreshWithToken == \E token \in SessionTokens : refresh_token(token)

NextToken ==
    \/ SubmitWithRefreshToken
    \/ ListWithToken
    \/ MeWithToken
    \/ RefreshWithToken
    \/ Tick
    \/ SetUserActive

SpecToken == Init /\ [][NextToken]_vars

\* Racing confirmations: a client asks for codes and two handlers confirm them
\* at the same time, with the right and a wrong code.
RacePasswords == {"new1", "new2"}

CodeRequested ==
    \E otp_code \in ResetCodes :
        request_password_reset("10.0.0.1", "u1@x", otp_code)

ConfirmFinds ==
    \E h \in Handlers, otp_code \in ResetCodes, new_password \in RacePasswords :
        FindOtp(h, "u1@x", otp_code, new_password)

ConfirmCommits == \E h \in Handlers : CommitReset(h)

NextConfirm ==
    \/ CodeRequested
    \/ ConfirmFinds
    \/ ConfirmCommits

SpecConfirm == InitLimit /\ [][NextConfirm]_vars

\* Sessions: users log in and refresh, a new user registers, a password is
\* reset, and the tokens that login and refresh hand out for these users are
\* shown to /me and to /refresh as the hours pass.
SessionLogins ==
    {<<"u1@x", "pw1">>, <<"u1@x", "new1">>, <<"new@x", "secret9">>}

IssuedTokens ==
    UNION {{create_access_token(e, t), create_refresh_token(e, t)} :
            e \in {"u1@x", "new@x"}, t \in 0 .. MaxTime}

UserLogsIn ==
    \E c \in SessionLogins :
        /\ Entry(LimitKey("10.0.0.1", "login")).count < MaxLogins
        /\ login("10.0.0.1", c[1], c[2])

UserRegisters ==
    \/ CheckRegistration(1, "newbie", "new@x", "secret9")
    \/ CommitRegistration(1)

UserResetsPassword ==
    \/ request_password_reset("10.0.0.1", "u1@x", "123456")
    \/ confirm_password_reset("u1@x", "123456", "new1")

UserAsksWhoAmI == \E token \in IssuedTokens : get_current_user_info(token)

UserRefreshes ==
    \E token \in {t \in IssuedTokens : t.sub = "u1@x"} : refresh_token(token)

NextSession ==
    \/ UserLogsIn
    \/ UserRegisters
    \/ UserResetsPassword
    \/ UserAsksWhoAmI
    \/ UserRefreshes
    \/ Tick
    \/ SetUserActive

SpecSession == InitLimit /\ [][NextSession]_vars

\* Cleanup: two tenants store readings of different ages, the hours pass and
\* the periodic task runs with a retention of no days and of one day.
AgedPayloads ==
    Payloads \cup {[gateway_id |-> "GW-1", node_id |-> "N-1", timestamp |-> -30]}

RetentionDays == {0, 1}

SubmitAged ==
    \E cred \in GatewayCredentials, data \in AgedPayloads,
       enq \in EnqueueOutcomes :
        Post(cred[1], cred[2], data, enq, "ok")

CleanupRuns ==
    \E days \in RetentionDays, dbres \in CleanupOutcomes :
        cleanup_old_data(days, dbres)

NextCleanup ==
    \/ SubmitAged
    \/ WorkerStores
    \/ CleanupRuns
    \/ Tick

SpecCleanup == Init /\ [][NextCleanup]_vars

\* Paging: the broker is down, so that every accepted reading is stored by the
\* request itself, and the list is asked for with filters, limits inside and
\* outside the declared range, and offsets.
InitPage == Init /\ ~celery

SubmitDirect ==
    \E cred \in GatewayCredentials, data \in Payloads :
        Post(cred[1], cred[2], data, "fail", "ok")

ListQueries ==
    FilterQueries
    \cup {<<NoStr, NoStr, 0, l, s>> : l \in Limits, s \in Skips}
    \cup {<<"GW-1", NoStr, 0, 1, 1>>, <<"", "N-1", 1, 1, 0>>}

QueryPages ==
    \E token \in ReaderTokens, q \in ListQueries :
        get_sensor_data(NoKey, token, q[1], q[2], q[3], q[4], q[5])

NextPage ==
    \/ SubmitDirect
    \/ QueryPages

SpecPage == InitPage /\ [][NextPage]_vars

NextReadAuth ==
    \/ KeyOwnerSubmits
    \/ ListWithCredentials
    \/ GatewaysWithCredentials
    \/ NodesWithCredentials
    \/ StatsWithCredentials
    \/ Tick
    \/ SetUserActive

SpecReadAuth == Init /\ [][NextReadAuth]_vars

\* Summaries: both tenants' gateways fill the store through the queue and
\* through the direct write, and both tenants ask for their gateways, their
\* nodes and their statistics.
QueryGateways ==
    \E token \in ReaderTokens : get_gateways(NoKey, token)

QueryNodes ==
    \E token \in ReaderTokens, gateway_id \in GatewayFilters \cup {"GW-2"} :
        get_nodes(NoKey, token, gateway_id)

QueryStats ==
    \E token \in ReaderTokens : get_stats(NoKey, token)

NextSummary ==
    \/ SubmitStored
    \/ WorkerStores
    \/ QueryGateways
    \/ QueryNodes
    \/ QueryStats

SpecSummary == Init /\ [][NextSummary]_vars

\* ================================================================== claims
\* The readings and the jobs that stem from one submission.
RowsOf(sub) == {r \in readings : r.sub = sub}

JobsOf(sub) == {j \in jobs : j.id = sub}

\* The rows of the key table that carry a given header value.
KeyRows(value) == {k \in DOMAIN api_keys : api_keys[k].key_value = value}

\* A token as I4 accepts it: signed with the secret, not expired, and with a
\* subject that is the email of a user whose active flag is set now.
TokenAcceptable(t) ==
    /\ t.sig = "good"
    /\ t.exp >= now
    /\ \E u \in DOMAIN users : users[u].email = t.sub /\ users[u].is_active

\* The principal a presented credential pair stands for: the key's owner when
\* a key is sent, the token's subject otherwise.
Principal(key, token) ==
    IF key # NoKey
    THEN {api_keys[k].user_id : k \in KeyRows(key)}
    ELSE {u \in DOMAIN users : users[u].email = token.sub}

\* C1: a list answered to principal A (the user its bearer token names) holds
\* only readings owned by A, whatever the filters, limit and skip, and
\* whichever path stored the other tenants' readings.
C1_TenantIsolation ==
    resp.op = "list" =>
        \A i \in DOMAIN resp.rows :
            /\ resp.rows[i] \in readings
            /\ resp.rows[i].user_id \in Principal(NoKey, resp.token)

C1_Witness ==
    /\ resp.op = "list"
    /\ resp.status = 200
    /\ Len(resp.rows) >= 1
    /\ \E r \in readings : r.user_id \notin Principal(NoKey, resp.token)
    /\ \E j \in jobs : j.state = "SUCCESS"
    /\ \E r \in readings : JobsOf(r.sub) = {}

\* C2: when the enqueue attempt fails (or Celery is not importable) and the
\* store works, a submission with a resolving credential is answered 200 with
\* job_id = null, exactly one reading of the principal is persisted for it,
\* and nothing is queued.
C2_IngestionAvailability ==
    (resp.op = "post" /\ resp.enq \in {"fail", "unavailable"} /\ resp.db = "ok") =>
        /\ resp.status = 200
        /\ resp.job_id = NoJob
        /\ Cardinality(RowsOf(resp.sub)) = 1
        /\ \A r \in RowsOf(resp.sub) : r.user_id \in Principal(resp.key, resp.token)
        /\ JobsOf(resp.sub) = {}

C2_Witness ==
    /\ resp.op = "post"
    /\ celery
    /\ resp.enq = "fail"
    /\ resp.db = "ok"
    /\ resp.status = 200
    /\ Cardinality(RowsOf(resp.sub)) = 1

\* C3 (as stated): every accepted submission has exactly one persisted
\* reading: at once on the direct path, and on the queued path once the
\* worker has finished with the job; never more than one at any time.
C3_ExactlyOneRowPerAccepted ==
    /\ (resp.op = "post" /\ resp.status = 200 /\ resp.job_id = NoJob)
            => Cardinality(RowsOf(resp.sub)) = 1
    /\ \A j \in jobs :
            /\ Cardinality(RowsOf(j.id)) <= 1
            /\ j.state \in {"SUCCESS", "FAILURE"} => Cardinality(RowsOf(j.id)) = 1

\* C4 (as stated): a submission answered 401 or 500 leaves no reading
\* persisted for it and no job queued for it.
C4_RejectedLeavesNothing ==
    (resp.op = "post" /\ resp.status \in {401, 500}) =>
        /\ RowsOf(resp.sub) = {}
        /\ JobsOf(resp.sub) = {}

\* C5 (as stated): however the attempts of one job fail and however often it
\* is retried, the store never holds two readings for that job.
C5_AtMostOneRowPerJob ==
    \A j \in jobs : Cardinality(RowsOf(j.id)) <= 1

\* C6 (as stated): the worker executes a job at most 3 times in total.
C6_AtMostThreeAttempts ==
    \A j \in jobs : j.attempts <= 3

\* C6 (amended): the worker executes a job at most max_retries + 1 = 4 times
\* (the first attempt and three retries); a job is recorded as failed exactly
\* after its 4th failed attempt, and a failed job is never executed again.
C6_RetryBound ==
    /\ [](\A j \in jobs :
            /\ j.attempts <= max_retries + 1
            /\ j.retries <= max_retries
            /\ j.state = "FAILURE" => j.attempts = max_retries + 1)
    /\ [][\A j \in jobs : j.state = "FAILURE" => j \in jobs']_vars

C6_Witness ==
    \E j \in jobs : j.state = "FAILURE" /\ j.attempts = 4

\* C7: when an active, unexpired API key comes with a bearer token (valid or
\* not, of the same or of another user), the key's last-used time is set to
\* the current time and every reading stored or queued for the submission
\* belongs to the key's owner; an accepted submission has such a reading.
C7_DualAuthPrecedence ==
    \A k \in KeyRows(resp.key) :
        (/\ resp.op = "post"
         /\ resp.token # NoToken
         /\ api_keys[k].is_active
         /\ ~(api_keys[k].expires_at # NoTime /\ api_keys[k].expires_at < now))
        => /\ api_keys[k].last_used_at = now
           /\ \A r \in RowsOf(resp.sub) : r.user_id = api_keys[k].user_id
           /\ \A j \in JobsOf(resp.sub) : j.data.user_id = api_keys[k].user_id
           /\ resp.status = 200 => RowsOf(resp.sub) \cup JobsOf(resp.sub) # {}

C7_Witness ==
    /\ resp.op = "post"
    /\ resp.key = "lora_b"
    /\ resp.token = create_access_token("u1@x", 0)
    /\ TokenAcceptable(resp.token)
    /\ resp.status = 200
    /\ \E r \in RowsOf(resp.sub) : r.user_id = 2
    /\ api_keys[2].last_used_at = now

\* C8: a bearer-protected endpoint, and the ingestion endpoint when no API
\* key is sent, accepts a token if and only if its signature verifies, it is
\* not expired and its subject is, at that moment, an existing active user.
BearerOps == {"list", "me"}

C8_BearerAcceptance ==
    /\ resp.op \in BearerOps => (resp.status = 200 <=> TokenAcceptable(resp.token))
    /\ (resp.op = "post" /\ resp.key = NoKey)
            => (resp.status # 401 <=> TokenAcceptable(resp.token))

\* A token issued at time 0, when its user was active, is refused after the
\* user has been deactivated.
C8_Witness ==
    /\ resp.op \in BearerOps
    /\ resp.token = create_access_token("u1@x", 0)
    /\ resp.token.exp >= now
    /\ ~users[1].is_active
    /\ resp.status = 403

\* C9: a request whose API key is unknown or inactive is answered 401, also
\* with an acceptable bearer token, and changes no reading, no job and no
\* key's last-used time.
C9_UnknownKeyRejected ==
    [][(/\ resp'.op = "post"
        /\ resp'.key # NoKey
        /\ \A k \in KeyRows(resp'.key) : ~api_keys[k].is_active)
       => /\ resp'.status = 401
          /\ resp'.detail = "Invalid or inactive API key"
          /\ UNCHANGED <<readings, jobs, api_keys, rid, nsub>>]_vars

C9_Witness ==
    /\ resp.op = "post"
    /\ resp.key = "lora_c"
    /\ TokenAcceptable(resp.token)
    /\ resp.status = 401
    /\ \E k \in DOMAIN api_keys : api_keys[k].last_used_at # NoTime

\* C10: a request with an active API key whose expiry is set and lies in the
\* past is answered 401 "API key has expired" and changes no reading, no job
\* and no key's last-used time; a key without expiry is never answered so.
C10_ExpiredKeyRejected ==
    [][\A k \in KeyRows(resp'.key) :
        (resp'.op = "post" /\ api_keys[k].is_active)
        => /\ (api_keys[k].expires_at # NoTime /\ api_keys[k].expires_at < now)
                => /\ resp'.status = 401
                   /\ resp'.detail = "API key has expired"
                   /\ UNCHANGED <<readings, jobs, api_keys, rid, nsub>>
           /\ api_keys[k].expires_at = NoTime
                => resp'.detail # "API key has expired"]_vars

C10_Witness ==
    /\ resp.op = "post"
    /\ resp.key = "lora_b"
    /\ resp.status = 401
    /\ resp.detail = "API key has expired"
    /\ api_keys[2].expires_at < now
    /\ api_keys[2].last_used_at = 0

\* C11: a submission without API key whose bearer token is absent, malformed,
\* wrongly signed, expired, without subject, or names no user or an inactive
\* one, is answered 401 with the generic authentication-required message, and
\* it changes no reading, no job and no key.
C11_NoCredentialRejected ==
    [][(/\ resp'.op = "post"
        /\ resp'.key = NoKey
        /\ \/ resp'.token = NoToken
           \/ resp'.token.sig # "good"
           \/ resp'.token.exp < now
           \/ resp'.token.sub = NoSub
           \/ \A u \in DOMAIN users :
                users[u].email = resp'.token.sub => ~users[u].is_active)
       => /\ resp'.status = 401
          /\ resp'.detail = "Authentication required"
          /\ resp'.job_id = NoJob
          /\ UNCHANGED <<readings, jobs, api_keys, rid, nsub>>]_vars

\* An expired token of an active user is turned away.
C11_Witness ==
    /\ resp.op = "post"
    /\ resp.key = NoKey
    /\ resp.token = create_access_token("u1@x", -1)
    /\ resp.token.exp < now
    /\ users[1].is_active
    /\ resp.status = 401
    /\ resp.detail = "Authentication required"

\* C12: a submission whose API key is found active and unexpired sets that
\* key's last-used time to the current time and changes nothing else in the
\* key table, whatever becomes of the request afterwards: queued, written,
\* or failed with the direct write rolled back and an error returned.
C12_KeyUseCommitted ==
    [][\A k \in KeyRows(resp'.key) :
        (/\ resp'.op = "post"
         /\ api_keys[k].is_active
         /\ ~(api_keys[k].expires_at # NoTime /\ api_keys[k].expires_at < now))
        => api_keys' = [api_keys EXCEPT ![k].last_used_at = now]]_vars

\* The direct write failed and was rolled back; the key's use stays recorded.
C12_Witness ==
    /\ resp.op = "post"
    /\ resp.key = "lora_a"
    /\ resp.status = 500
    /\ resp.db = "commit_fails"
    /\ RowsOf(resp.sub) = {}
    /\ JobsOf(resp.sub) = {}
    /\ now = 1
    /\ api_keys[1].last_used_at = 1

\* C13 (as stated): an API key's last-used time never decreases, however
\* the handlers that authenticate with the key interleave.
C13_LastUsedMonotone ==
    [][\A k \in DOMAIN api_keys :
            api_keys'[k].last_used_at >= api_keys[k].last_used_at]_vars

\* The requests an address has made to POST /api/auth/login in the limiter's
\* running window, which the first request after the previous window opens.
LoginsInWindow(address) ==
    IF limiter[<<address, "login">>].expiry > clock
    THEN limiter[<<address, "login">>].count
    ELSE 0

CredentialsValid(email, password) ==
    \E u \in DOMAIN users :
        /\ users[u].email = email
        /\ users[u].hashed_password = hash_password(password)

\* C14: a login request that is among the first 5 from its address in a
\* window of 60 seconds (opened by the first of them) is answered by the
\* credential check, 200 with tokens for valid and 401 for invalid
\* credentials, and is counted either way; a further request inside the
\* window is answered 429 without tokens whatever its credentials; once the
\* window is over the count starts again.
C14_LoginRateLimit ==
    [][resp'.op = "login" =>
        /\ LoginsInWindow(resp'.addr) < 5 =>
              /\ resp'.status = IF CredentialsValid(resp'.email, resp'.password)
                                THEN 200 ELSE 401
              /\ resp'.status = 200 =>
                    /\ resp'.access_token = create_access_token(resp'.email, now)
                    /\ resp'.refresh_token = create_refresh_token(resp'.email, now)
              /\ resp'.status = 401 =>
                    /\ resp'.access_token = NoToken
                    /\ resp'.refresh_token = NoToken
        /\ LoginsInWindow(resp'.addr) >= 5 =>
              /\ resp'.status = 429
              /\ resp'.access_token = NoToken
              /\ resp'.refresh_token = NoToken
        /\ limiter'[<<resp'.addr, "login">>].count = LoginsInWindow(resp'.addr) + 1
        /\ limiter'[<<resp'.addr, "login">>].expiry =
              IF LoginsInWindow(resp'.addr) = 0 THEN clock + 60
              ELSE limiter[<<resp'.addr, "login">>].expiry]_vars

\* The first window (opened at 0) was used up at 40 and is over at 60, where
\* a login with valid credentials succeeds again.
C14_Witness ==
    /\ resp.op = "login"
    /\ resp.status = 200
    /\ clock = 60
    /\ recent[<<resp.addr, "login">>] = <<40, 40, 40, 40, 60>>

\* C15 (as stated): in every 60 consecutive seconds at most 5 login
\* requests of one address are admitted, and in every 3600 consecutive
\* seconds at most 3 password-reset requests of one address.
C15_RollingWindowBound ==
    \A address \in Addresses :
        /\ Len(recent[<<address, "login">>]) <= 5
        /\ Len(recent[<<address, "reset">>]) <= 3

\* C16: GET /api/sensor-data, /api/gateways, /api/nodes and /api/stats
\* look at the bearer token only: whatever API key the request carries, a
\* request whose token is not acceptable is answered with a credential
\* error (401 or 403 with a message) and without any data, and a request
\* whose token is acceptable is answered 200.
ReadOps == {"list", "gateways", "nodes", "stats"}

C16_ReadsBearerOnly ==
    resp.op \in ReadOps =>
        /\ TokenAcceptable(resp.token) => resp.status = 200
        /\ ~TokenAcceptable(resp.token) =>
              /\ resp.status \in {401, 403}
              /\ resp.detail \in {"Not authenticated",
                                  "Could not validate credentials",
                                  "User not found", "Inactive user"}
              /\ resp.rows = <<>>
              /\ resp.values = <<>>
              /\ resp.stats = NoStats

\* The key of an active owner who has a reading stored, sent without token.
C16_Witness ==
    /\ resp.op = "stats"
    /\ resp.key = "lora_a"
    /\ resp.token = NoToken
    /\ resp.status = 403
    /\ api_keys[1].is_active
    /\ users[1].is_active
    /\ \E r \in readings : r.user_id = api_keys[1].user_id

\* C17: a success response of the ingestion endpoint tells the path: its
\* job_id is set exactly when a job for the submission is queued and the
\* handler wrote no row, and it is null exactly when the handler wrote the
\* row itself and queued no job; a job_id in a response names a queued job;
\* and no run of the handler both queues a job and writes a row.
C17_PathDisclosed ==
    /\ []((resp.op = "post" /\ resp.status = 200) =>
            /\ resp.job_id # NoJob <=>
                    (JobsOf(resp.sub) # {} /\ RowsOf(resp.sub) = {})
            /\ resp.job_id = NoJob <=>
                    (Cardinality(RowsOf(resp.sub)) = 1 /\ JobsOf(resp.sub) = {})
            /\ resp.detail = IF resp.job_id # NoJob
                             THEN "Data received and queued for processing"
                             ELSE "Data saved successfully")
    /\ [](resp.job_id # NoJob =>
            /\ resp.status = 200
            /\ \E j \in jobs : j.id = resp.job_id /\ j.state = "PENDING")
    /\ [][resp'.op = "post" => ~(jobs' # jobs /\ readings' # readings)]_vars

\* A direct write is acknowledged while an earlier submission waits in the
\* queue.
C17_Witness ==
    /\ resp.op = "post"
    /\ resp.status = 200
    /\ resp.job_id = NoJob
    /\ Cardinality(RowsOf(resp.sub)) = 1
    /\ \E j \in jobs : j.state = "PENDING" /\ RowsOf(j.id) = {}

\* C18: with a worker that keeps running, every job that is queued reaches
\* the state of a stored job (SUCCESS) or of an abandoned one (FAILURE); a
\* job in either state is never executed, retried or queued again, and its
\* readings stay as they are.
Terminal == {"SUCCESS", "FAILURE"}

C18_JobsTerminate ==
    /\ \A id \in 1..MaxSubmissions :
            [](JobsOf(id) # {} => <>(\E j \in JobsOf(id) : j.state \in Terminal))
    /\ [][\A j \in jobs :
            j.state \in Terminal =>
                /\ {k \in jobs' : k.id = j.id} = {j}
                /\ {r \in readings' : r.sub = j.id} = RowsOf(j.id)]_vars

\* One job was stored after a retry, another was given up.
C18_Witness ==
    /\ \E j \in jobs : j.state = "SUCCESS" /\ j.retries >= 1
    /\ \E j \in jobs : j.state = "FAILURE"

\* The readings of the user a bearer token names.
Mine(token) == {r \in readings : r.user_id \in Principal(NoKey, token)}

Newest(S) == CHOOSE t \in {r.timestamp : r \in S} : \A r \in S : r.timestamp <= t

\* C19: the statistics answered to a principal are computed from its own
\* readings alone: their number, the numbers of distinct gateway ids and of
\* distinct node ids among them, and their greatest timestamp, or none when
\* it has no reading.
C19_StatsScoped ==
    (resp.op = "stats" /\ resp.status = 200) =>
        /\ resp.stats.total_readings = Cardinality(Mine(resp.token))
        /\ resp.stats.total_gateways =
                Cardinality({r.gateway_id : r \in Mine(resp.token)})
        /\ resp.stats.total_nodes =
                Cardinality({r.node_id : r \in Mine(resp.token)})
        /\ resp.stats.latest_reading_time =
                IF Mine(resp.token) = {} THEN NoIsoTime
                ELSE isoformat(Newest(Mine(resp.token)))

\* Another principal holds a newer reading of another gateway and node.
C19_Witness ==
    /\ resp.op = "stats"
    /\ resp.status = 200
    /\ resp.stats.total_readings = 1
    /\ resp.stats.latest_reading_time = isoformat(-2)
    /\ \E r \in readings \ Mine(resp.token) :
            /\ r.timestamp = 0
            /\ r.gateway_id = "GW-2"

\* The values of a sequence.
Range(f) == {f[i] : i \in DOMAIN f}

\* C20: the gateway list answered to a principal holds exactly the gateway
\* ids of its own readings, and the node list exactly the node ids of its
\* own readings, of the given gateway when a non-empty gateway_id is sent;
\* each value is listed once.
C20_DistinctScoped ==
    /\ (resp.op = "gateways" /\ resp.status = 200) =>
            /\ Range(resp.values) = {r.gateway_id : r \in Mine(resp.token)}
            /\ Len(resp.values) = Cardinality(Range(resp.values))
    /\ (resp.op = "nodes" /\ resp.status = 200) =>
            /\ Range(resp.values) =
                    {r.node_id : r \in
                        {m \in Mine(resp.token) :
                            resp.gateway_id \in {NoStr, ""}
                                \/ m.gateway_id = resp.gateway_id}}
            /\ Len(resp.values) = Cardinality(Range(resp.values))

\* Two readings of the principal share their gateway, which is listed once.
C20_Witness ==
    /\ resp.op = "gateways"
    /\ resp.status = 200
    /\ resp.values = <<"GW-1">>
    /\ Cardinality(Mine(resp.token)) = 2

\* C21 (as stated): a list is ordered by timestamp, newest first, and
\* readings with equal timestamps follow each other in insertion order.
C21_StableOrder ==
    (resp.op = "list" /\ resp.status = 200) =>
        \A i, j \in DOMAIN resp.rows :
            i < j =>
                \/ resp.rows[i].timestamp > resp.rows[j].timestamp
                \/ /\ resp.rows[i].timestamp = resp.rows[j].timestamp
                   /\ resp.rows[i].id < resp.rows[j].id

\* C22 (as stated): the limit of a list request is clamped into 1..1000: an
\* authenticated request is always served, with at most 1 reading when its
\* limit is below 1 and at most 1000 when its limit is above 1000.
Clamped(limit) ==
    IF limit < 1 THEN 1 ELSE IF limit > MaxLimit THEN MaxLimit ELSE limit

C22_LimitClamped ==
    (resp.op = "list" /\ get_current_user(resp.token).status = 200) =>
        /\ resp.status = 200
        /\ Len(resp.rows) <= Clamped(resp.limit)

\* C22 (amended): the limit of a list request is restricted to 1..1000 by
\* validation, not by clamping: an authenticated request whose limit is outside
\* the range is answered 422 with no readings, and every served list has a
\* limit inside the range and at most that many readings (so never more than
\* 1000).
C22_LimitValidated ==
    resp.op = "list" =>
        /\ resp.status = 200 =>
                /\ resp.limit >= 1 /\ resp.limit <= MaxLimit
                /\ Len(resp.rows) <= resp.limit
                /\ Len(resp.rows) <= MaxLimit
        /\ (get_current_user(resp.token).status = 200
                /\ (resp.limit < 1 \/ resp.limit > MaxLimit)) =>
                /\ resp.status = 422
                /\ resp.rows = <<>>

C22_Witness ==
    /\ resp.op = "list" /\ resp.status = 422
    /\ resp.limit = MaxLimit + 1
    /\ OwnedBy(get_current_user(resp.token).user) # {}

\* C23: a login that is admitted and fails is answered the same way whether
\* the email is unknown or the email is known and the password is wrong: 401
\* with the one message and no token; tokens are issued only when the email and
\* the password both match a stored user.
LoginFailure ==
    [status |-> 401, detail |-> "Incorrect email or password",
     access_token |-> NoToken, refresh_token |-> NoToken]

LoginView(r) ==
    [status |-> r.status, detail |-> r.detail,
     access_token |-> r.access_token, refresh_token |-> r.refresh_token]

C23_UniformLoginFailure ==
    resp.op = "login" =>
        /\ (resp.status # 429 /\ ~CredentialsValid(resp.email, resp.password))
                => LoginView(resp) = LoginFailure
        /\ (resp.access_token # NoToken \/ resp.refresh_token # NoToken)
                => /\ resp.status = 200
                   /\ CredentialsValid(resp.email, resp.password)
                   /\ resp.access_token.sub = resp.email
                   /\ resp.refresh_token.sub = resp.email

C23_Witness ==
    /\ resp.op = "login" /\ resp.status = 401
    /\ UserByEmail(resp.email) = NoUser
    /\ \E t \in Range(recent[<<resp.addr, "login">>]) : t < clock

\* C24: a confirmation changes a password only when a stored code matches its
\* email and code and is, at that moment, unused and unexpired: then exactly that
\* user's password becomes the new one and exactly one such code is marked
\* used; any other confirmation is rejected and changes neither a password nor
\* the used flag of any code.
OtpMatches(i, r) ==
    /\ otps[i].email = r.email
    /\ otps[i].otp_code = r.otp_code
    /\ otps[i].is_used = FALSE
    /\ otps[i].expires_at > clock

C24_ConfirmStep ==
    resp'.op = "confirm" =>
        IF \E i \in DOMAIN otps : OtpMatches(i, resp')
        THEN /\ resp'.status = 200
             /\ \E i \in DOMAIN otps :
                    /\ OtpMatches(i, resp')
                    /\ otps' = [otps EXCEPT ![i].is_used = TRUE]
             /\ \E u \in DOMAIN users :
                    /\ users[u].email = resp'.email
                    /\ users' = [users EXCEPT
                            ![u].hashed_password = hash_password(resp'.password)]
        ELSE /\ resp'.status = 400
             /\ users' = users
             /\ otps' = otps

C24_ConfirmGuarded == [][C24_ConfirmStep]_vars

C24_Witness ==
    /\ resp.op = "confirm" /\ resp.status = 200
    /\ users[1].hashed_password = hash_password("new1")
    /\ \E i, j \in DOMAIN otps :
            /\ otps[i].is_used /\ ~otps[j].is_used
            /\ otps[j].email = resp.email /\ otps[j].otp_code = resp.otp_code
            /\ otps[j].expires_at <= clock

\* C25 (as stated): a register request that ends while its email or its
\* username is that of an existing user is answered 400 and creates no user,
\* also when another request with the same email or username committed after
\* this one had passed its existence checks.
C25_DuplicateStep ==
    (resp'.op = "register"
        /\ \E u \in DOMAIN users :
                \/ users[u].email = resp'.email
                \/ users[u].username = resp'.username)
    => (resp'.status = 400 /\ users' = users)

C25_DuplicateRejected == [][C25_DuplicateStep]_vars

\* What does hold of C25: no two users share an email or a username, and a
\* request that repeats either creates no user.
C25_UsersUnique ==
    \A u, v \in DOMAIN users :
        u # v => (users[u].email # users[v].email
                    /\ users[u].username # users[v].username)

C25_Raced ==
    /\ resp.op = "register" /\ resp.status = 500
    /\ \E u \in DOMAIN users : u > 2 /\ users[u].email = resp.email

\* C26: no endpoint tells an access token from a refresh token.  A bearer
\* request to the list, to /me, to /refresh or to ingestion is accepted exactly
\* when its token is well signed, unexpired and names an active user, whichever
\* of the two it is; /refresh answers such a token with a new access token and a
\* new refresh token for the same subject.
TokenOps == {"list", "me", "refresh"}

C26_TokensInterchangeable ==
    /\ resp.op \in TokenOps =>
            (resp.status = 200 <=> TokenAcceptable(resp.token))
    /\ (resp.op = "post" /\ resp.key = NoKey) =>
            (resp.status \notin {401, 403} <=> TokenAcceptable(resp.token))
    /\ (resp.op = "refresh" /\ resp.status = 200) =>
            /\ resp.access_token = create_access_token(resp.token.sub, now)
            /\ resp.refresh_token = create_refresh_token(resp.token.sub, now)

C26_Witness ==
    /\ resp.op = "refresh" /\ resp.status = 200
    /\ resp.token = create_access_token("u1@x", 0)
    /\ resp.refresh_token.exp = now + REFRESH_TOKEN_EXPIRE_HOURS
    /\ \E r \in readings : r.user_id = 1

\* C27: an admitted reset request is answered 200 with the one generic message
\* whether or not its email belongs to a user; it stores one new code, for that
\* email, unused and valid for fifteen minutes, when the email is a user's, and
\* stores nothing when it is not.  A request over the rate limit stores nothing.
C27_ResetStep ==
    resp'.op = "reset" =>
        /\ resp'.status # 429 =>
                /\ resp'.status = 200
                /\ resp'.detail = "If the email exists, an OTP has been sent"
        /\ IF resp'.status = 200
                /\ \E u \in DOMAIN users : users[u].email = resp'.email
           THEN /\ Len(otps') = Len(otps) + 1
                /\ SubSeq(otps', 1, Len(otps)) = otps
                /\ otps'[Len(otps')].email = resp'.email
                /\ otps'[Len(otps')].is_used = FALSE
                /\ otps'[Len(otps')].expires_at = clock + OTP_EXPIRE_SECONDS
           ELSE otps' = otps

C27_ResetEnumerationSafe == [][C27_ResetStep]_vars

C27_Witness ==
    /\ resp.op = "reset" /\ resp.status = 200
    /\ UserByEmail(resp.email) = NoUser
    /\ Len(otps) = 1
    /\ recent[<<resp.addr, "reset">>] # <<>>

\* C28: every reading is stored under a non-null owner that is an existing user
\* and is the principal that authenticated its submission.  On the direct path
\* the row written by a request belongs to the principal of that request; on
\* the queued path the job created by a request carries that principal's id,
\* no later step changes what a job carries, and the row a worker writes for a
\* job belongs to the id the job carries, whatever ran in between.
Submitter(key, token) ==
    IF \E k \in KeyRows(key) : api_keys[k].is_active /\ ~KeyExpired(k)
    THEN {api_keys[k].user_id :
            k \in {x \in KeyRows(key) : api_keys[x].is_active /\ ~KeyExpired(x)}}
    ELSE {u \in DOMAIN users : users[u].email = token.sub /\ TokenAcceptable(token)}

C28_OwnerStep ==
    /\ \A r \in readings' \ readings :
            /\ r.user_id # NoUser
            /\ r.user_id \in DOMAIN users
            /\ IF resp'.op = "post"
               THEN r.sub = resp'.sub
                        /\ r.user_id \in Submitter(resp'.key, resp'.token)
               ELSE \E j \in jobs : j.id = r.sub /\ j.data.user_id = r.user_id
    /\ \A j \in jobs' :
            IF \E i \in jobs : i.id = j.id
            THEN \E i \in jobs : i.id = j.id /\ i.data = j.data
            ELSE /\ resp'.op = "post" /\ resp'.sub = j.id
                 /\ j.data.user_id # NoUser
                 /\ j.data.user_id \in Submitter(resp'.key, resp'.token)

C28_ReadingsOwned == [][C28_OwnerStep]_vars

C28_Witness ==
    \E r, x \in readings :
        /\ r.user_id = 1 /\ x.user_id = 2
        /\ x.sub > r.sub /\ x.id < r.id
        /\ \E j \in jobs : j.id = r.sub /\ j.state = "SUCCESS"
        /\ JobsOf(x.sub) = {}

\* C29: a served list holds exactly the readings of its principal that pass
\* every supplied filter (gateway equal, node equal, timestamp not older than
\* now - hours), where a filter that is absent or the empty string lets every
\* reading pass: the response is the stretch of the newest-first result that
\* starts after skip entries and has limit entries, or as many as remain.
Supplied(value) == value # NoStr /\ value # ""

Expected(r) ==
    {x \in readings :
        /\ \E u \in DOMAIN users : users[u].email = r.token.sub /\ x.user_id = u
        /\ Supplied(r.gateway_id) => x.gateway_id = r.gateway_id
        /\ Supplied(r.node_id) => x.node_id = r.node_id
        /\ r.hours # 0 => x.timestamp >= now - r.hours}

C29_ListExact ==
    (resp.op = "list" /\ resp.status = 200) =>
        LET got == Range(resp.rows)
            rest == Expected(resp) \ got
        IN  /\ got \subseteq Expected(resp)
            /\ Cardinality(got) = Len(resp.rows)
            /\ Len(resp.rows) <= resp.limit
            /\ \A i, j \in DOMAIN resp.rows :
                    i < j => resp.rows[i].timestamp >= resp.rows[j].timestamp
            /\ \E before \in SUBSET rest :
                    /\ Cardinality(before) =
                            IF resp.skip < Cardinality(Expected(resp))
                            THEN resp.skip ELSE Cardinality(Expected(resp))
                    /\ \A b \in before, x \in got : b.timestamp >= x.timestamp
                    /\ \A a \in rest \ before, x \in got \cup before :
                            a.timestamp <= x.timestamp
                    /\ rest \ before # {} => Len(resp.rows) = resp.limit

C29_Witness ==
    /\ resp.op = "list" /\ resp.status = 200
    /\ resp.gateway_id = "" /\ resp.node_id = "N-1" /\ resp.hours = 1
    /\ resp.limit = 1 /\ resp.skip = 0
    /\ Len(resp.rows) = 1
    /\ Cardinality(Expected(resp)) = 2
    /\ \E x \in Expected(resp) : x.gateway_id = "GW-2"

\* C30: a failed attempt that reschedules its job does so with a countdown of
\* 2^r seconds, r being the retries the job had performed before the attempt:
\* 1 second after the first failure, then 2, then 4, each the double of the
\* delay before it.
Backoff == <<1, 2, 4>>

C30_BackoffStep ==
    \A j \in jobs, k \in jobs' :
        (k.id = j.id /\ k.attempts = j.attempts + 1 /\ k.state = "RETRY") =>
            /\ j.retries \in 0 .. 2
            /\ k.retries = j.retries + 1
            /\ k.countdown = Backoff[j.retries + 1]
            /\ j.retries > 0 => k.countdown = 2 * j.countdown

C30_ExponentialBackoff == [][C30_BackoffStep]_vars

C30_Witness ==
    \E j \in jobs :
        j.state = "RETRY" /\ j.retries = 3 /\ j.attempts = 3 /\ j.countdown = 4

\* C31 (as stated): a stored code drives at most one successful reset: every
\* confirmation that succeeds uses up a code that matches it and was unused
\* until then, also when two confirmations read the same code as unused before
\* either commits.
C31_SuccessStep ==
    (resp'.op = "confirm" /\ resp'.status = 200) =>
        \E i \in DOMAIN otps :
            /\ otps[i].email = resp'.email
            /\ otps[i].otp_code = resp'.otp_code
            /\ ~otps[i].is_used
            /\ otps'[i].is_used

C31_SingleUse == [][C31_SuccessStep]_vars

\* C32: a persisted reading is immutable under requests and worker steps: every
\* stored row is still stored after the step, and the row that has a stored
\* row's primary key after the step is that same row, with the same owner,
\* gateway, node and timestamp; a step only adds rows.
C32_ImmutableStep ==
    /\ readings \subseteq readings'
    /\ \A x \in readings, r \in readings' : r.id = x.id => r = x
    /\ \A r \in readings' \ readings : r.id > rid

C32_ReadingsImmutable == [][C32_ImmutableStep]_vars

C32_Witness ==
    /\ Cardinality(readings) >= 2
    /\ \E j \in jobs, r \in readings :
            /\ j.state = "SUCCESS" /\ j.attempts > 1 /\ r.sub = j.id
            /\ \E x \in readings : x.id < r.id /\ x.user_id # r.user_id

\* C33 (as stated): a submission made for a principal whose active flag is
\* false, with its bearer token or with an API key that it owns, leaves no
\* queued job and no stored reading.
C33_InactiveRejected ==
    resp.op = "post" =>
        \A u \in DOMAIN users :
            (/\ ~users[u].is_active
             /\ IF resp.key # NoKey
                THEN \E k \in KeyRows(resp.key) : api_keys[k].user_id = u
                ELSE resp.token.sub = users[u].email)
            => (RowsOf(resp.sub) = {} /\ JobsOf(resp.sub) = {})

\* C34: login and refresh issue tokens whose subject is the email of the user
\* they were issued for, and in every state, whatever was registered or reset
\* before, such a token that is unexpired and whose user is active resolves to
\* that user and to no other on the bearer endpoints.
IssuableTokens ==
    UNION {{create_access_token(users[u].email, t),
            create_refresh_token(users[u].email, t)} :
            u \in DOMAIN users, t \in 0 .. now}

C34_TokenNamesItsUser ==
    /\ (resp.op = "login" /\ resp.status = 200) =>
            /\ CredentialsValid(resp.email, resp.password)
            /\ resp.access_token = create_access_token(resp.email, now)
            /\ resp.refresh_token = create_refresh_token(resp.email, now)
    /\ (resp.op = "refresh" /\ resp.status = 200) =>
            /\ resp.access_token = create_access_token(resp.token.sub, now)
            /\ resp.refresh_token = create_refresh_token(resp.token.sub, now)
    /\ (resp.op = "me" /\ resp.status = 200) =>
            \E u \in DOMAIN users :
                /\ users[u].email = resp.token.sub
                /\ resp.email = users[u].email
                /\ resp.username = users[u].username
    /\ \A t \in IssuableTokens, u \in DOMAIN users :
            (t.sub = users[u].email /\ t.exp >= now /\ users[u].is_active) =>
                /\ get_current_user(t) = [status |-> 200, detail |-> "", user |-> u]
                /\ get_current_user_optional(t) = u
                /\ \A v \in DOMAIN users : users[v].email = t.sub => v = u

C34_Witness ==
    /\ resp.op = "me" /\ resp.status = 200
    /\ resp.username = "newbie"
    /\ resp.token = create_refresh_token("new@x", 0)
    /\ now = 1
    /\ users[1].hashed_password = hash_password("new1")

\* C35: a run of cleanup_old_data(days) that goes through removes exactly the
\* readings whose timestamp is earlier than now - days, whoever owns them, and
\* reports how many; a run that fails removes nothing and returns an error
\* status; either way every other reading, every user, every API key and every
\* queued job is as before.
C35_CleanupStep ==
    resp'.op = "cleanup" =>
        /\ users' = users /\ api_keys' = api_keys /\ jobs' = jobs
        /\ IF resp'.db = "ok"
           THEN /\ resp'.detail = "success"
                /\ readings' =
                      {r \in readings :
                          r.timestamp >= now - HOURS_PER_DAY * resp'.days}
                /\ resp'.deleted_count = Cardinality(readings \ readings')
           ELSE /\ resp'.detail = "error"
                /\ readings' = readings

C35_CleanupExact == [][C35_CleanupStep]_vars

C35_Witness ==
    /\ resp.op = "cleanup" /\ resp.detail = "success"
    /\ resp.days = 1 /\ resp.deleted_count = 1
    /\ \E r \in readings : r.timestamp = -2
    /\ rid = 2


====
